---- MODULE Spec2Model ----
(***************************************************************************)
(* Model of scripts/add_cloudkit_to_xcode.py: the script that registers    *)
(* CloudKitPlugin.swift and CloudKitService.swift in                        *)
(* ios/Runner.xcodeproj/project.pbxproj.                                    *)
(*                                                                         *)
(* The manifest buffer is a sequence of tokens.  Every token stands for a  *)
(* fixed piece of text (given next to its definition, \t = tab, \n = line  *)
(* feed), and the buffer's text is the concatenation of its tokens' texts. *)
(* Every token except Tab is one or more whole lines.  The three-tab       *)
(* closing line "\t\t\t);\n" of a listing is the two tokens Tab, Close,    *)
(* because the Sources pattern ends in "\t\t\);" and so splits that line   *)
(* after its first tab.  The regular expressions of the script are         *)
(* translated to matches over these tokens.                                *)
(***************************************************************************)
EXTENDS Naturals, Integers, Sequences, FiniteSets

VARIABLES
  pc,              \* position of the process inside main / modify_pbxproj
  env,             \* which of the files and directories main looks for exist
  disk,            \* project.pbxproj on disk: [exists, text]
  content,         \* modify_pbxproj's local `content`
  prev,            \* `content` as it was handed to the editor that ran last
  input,           \* the text read_pbxproj returned in this run
  file_ids,        \* modify_pbxproj's local `file_ids`   (0: not generated yet)
  build_ids,       \* modify_pbxproj's local `build_ids`  (0: not generated yet)
  status,          \* the process's exit status (-1: still running)
  orig,            \* the manifest text before the first run (history)
  writes,          \* completed or started writes of the manifest in this run (history)
  fault,           \* "none", or the I/O that raised in this run: "exists",
                   \* "read", "write" or "print" (history)
  runs             \* number of runs of the script started so far

vars == <<pc, env, disk, content, prev, input, file_ids, build_ids, status,
          orig, writes, fault, runs>>

\* ------------------------------------------------------------------ bounds

\* Size of the identifier space the model draws generate_xcode_id's results from.
NumIds == 2

\* Largest number of occurrences of one anchor in an input manifest.
MaxCopies == 2

\* ------------------------------------------------------------------ tokens

T(k, f, id, ref) == [k |-> k, f |-> f, id |-> id, ref |-> ref]

\* The well-known identifier 74858FAD1ED2DC5600515810 of the bridging header.
SentinelId == 0

\* "/* Begin PBXBuildFile section */\n"
BeginBuild == T("BeginBuild", "", 0, 0)
\* "/* End PBXBuildFile section */\n"
EndBuild == T("EndBuild", "", 0, 0)
\* "/* End PBXFileReference section */\n"
EndRef == T("EndRef", "", 0, 0)
\* "\t"
Tab == T("Tab", "", 0, 0)
\* "\t\t);\n"
Close == T("Close", "", 0, 0)
\* "\t\t\tpath = Runner;\n"
PathRunner == T("PathRunner", "", 0, 0)
\* "\t\t\tname = Flutter;\n"
NameFlutter == T("NameFlutter", "", 0, 0)
\* "\t\t\tsourceTree = \"<group>\";\n"
SourceTree == T("SourceTree", "", 0, 0)
\* "\t\t97C146EA1CF9000F007C117D /* Sources */ = {\n\t\t\tisa = PBXSourcesBuildPhase;\n"
\* "\t\t\tbuildActionMask = 2147483647;\n\t\t\tfiles = (\n"
SourcesHead == T("SourcesHead", "", 0, 0)
\* "\t\t\t\t97C146EA1CF9000F007C117D /* Sources */,\n"   (a target's buildPhases entry)
SourcesRef == T("SourcesRef", "", 0, 0)

\* "\t\t<id> /* <f> */ = {isa = PBXFileReference; lastKnownFileType = sourcecode.swift; "
\* "path = <f>; sourceTree = \"<group>\"; };\n"
RefRecord(f, id) == T("RefRecord", f, id, 0)
\* "\t\t<id> /* <f> in Sources */ = {isa = PBXBuildFile; fileRef = <ref> /* <f> */; };\n"
BuildRecord(f, id, ref) == T("BuildRecord", f, id, ref)
\* "\t\t\t\t<id> /* <f> */,\n"
GroupEntry(f, id) == T("GroupEntry", f, id, 0)
\* "\t\t\t\t<id> /* <f> in Sources */,\n"
PhaseEntry(f, id) == T("PhaseEntry", f, id, 0)

\* The file names <f>; the generated identifiers are 24 upper-case hex digits,
\* and so are the identifiers of the manifest's own entries.
Plugin == "CloudKitPlugin.swift"
Service == "CloudKitService.swift"
Header == "Runner-Bridging-Header.h"
Other == "AppDelegate.swift"
Paren == "Copy (1).swift"

\* "\t\t\t\t74858FAD1ED2DC5600515810 /* Runner-Bridging-Header.h */,\n"
Sentinel == GroupEntry(Header, SentinelId)

\* ----------------------------------------------------------------- editors

\* file_ids / build_ids: {'plugin': ..., 'service': ...}
Ids(p, s) == [plugin |-> p, service |-> s]

\* A substitution with count=1: only the first occurrence of the marker gets
\* the entries.
re_sub_marker_first(marker, entries, buf) ==
  LET F[i \in 0..Len(buf)] ==
        IF i = 0 THEN <<>>
        ELSE F[i - 1] \o (IF buf[i] = marker
                             /\ \A j \in 1..(i - 1) : buf[j] # marker
                          THEN entries \o <<buf[i]>>
                          ELSE <<buf[i]>>)
  IN F[Len(buf)]

\* A replacement string without the "\1": the marker itself is lost.
re_sub_marker_dropped(marker, entries, buf) ==
  LET F[i \in 0..Len(buf)] ==
        IF i = 0 THEN <<>>
        ELSE F[i - 1] \o (IF buf[i] = marker THEN entries ELSE <<buf[i]>>)
  IN F[Len(buf)]

\* re.sub(r"(<marker>)", f"{plugin_entry}{service_entry}\\1", content): every
\* occurrence of the marker is replaced by the two entries followed by itself.
re_sub_marker(marker, entries, buf) ==
  LET F[i \in 0..Len(buf)] ==
        IF i = 0 THEN <<>>
        ELSE F[i - 1] \o (IF buf[i] = marker THEN entries \o <<buf[i]>>
                          ELSE <<buf[i]>>)
  IN F[Len(buf)]

add_pbx_file_references(buf, fids) ==
  LET plugin_entry == RefRecord(Plugin, fids.plugin)
      service_entry == RefRecord(Service, fids.service)
  IN re_sub_marker(EndRef, <<plugin_entry, service_entry>>, buf)

\* The two fileRef identifiers taken from the other file's key.
add_pbx_build_files_swapped(buf, bids, fids) ==
  LET plugin_entry == BuildRecord(Plugin, bids.plugin, fids.service)
      service_entry == BuildRecord(Service, bids.service, fids.plugin)
  IN re_sub_marker(EndBuild, <<plugin_entry, service_entry>>, buf)

add_pbx_build_files(buf, bids, fids) ==
  LET plugin_entry == BuildRecord(Plugin, bids.plugin, fids.plugin)
      service_entry == BuildRecord(Service, bids.service, fids.service)
  IN re_sub_marker(EndBuild, <<plugin_entry, service_entry>>, buf)

\* runner_group_pattern at token i: the sentinel entry's text from its identifier
\* on, then "\t\t\t);".
PrimaryAt(buf, i) ==
  /\ i + 2 <= Len(buf)
  /\ buf[i] = Sentinel
  /\ buf[i + 1] = Tab
  /\ buf[i + 2] = Close

\* "\t\t\t\t[A-F0-9]{24} /\* [^*]+ \*/,\n": a line that ends in a 24-hex-digit
\* identifier, a comment and a comma.
IsHexEntry(t) == t.k \in {"GroupEntry", "PhaseEntry", "SourcesRef"}

\* alt_pattern at token i.
FallbackAt(buf, i) ==
  /\ i + 4 <= Len(buf)
  /\ IsHexEntry(buf[i])
  /\ buf[i + 1] = Tab
  /\ buf[i + 2] = Close
  /\ buf[i + 3] = PathRunner
  /\ buf[i + 4] = SourceTree

\* Number of tokens of the primary pattern and of the alternative pattern.
MatchAt(which, buf, i) ==
  IF which = "primary" THEN PrimaryAt(buf, i) ELSE FallbackAt(buf, i)

PatternLen(which) == IF which = "primary" THEN 3 ELSE 5

\* re.sub(runner_group_pattern, runner_group_replacer, content) and
\* re.sub(alt_pattern, lambda m: m.group(1) + plugin_ref + service_ref + m.group(2), result):
\* group 1 is the first token of a match and group 2 the rest; leftmost
\* non-overlapping matches, all of them.
RECURSIVE re_sub_group(_, _, _, _)
re_sub_group(which, entries, buf, i) ==
  IF i > Len(buf) THEN <<>>
  ELSE IF MatchAt(which, buf, i)
       THEN <<buf[i]>> \o entries \o SubSeq(buf, i + 1, i + PatternLen(which) - 1)
              \o re_sub_group(which, entries, buf, i + PatternLen(which))
       ELSE <<buf[i]>> \o re_sub_group(which, entries, buf, i + 1)

\* The editor without its second attempt.
add_to_runner_group_primary_only(buf, fids) ==
  LET plugin_ref == GroupEntry(Plugin, fids.plugin)
      service_ref == GroupEntry(Service, fids.service)
  IN re_sub_group("primary", <<plugin_ref, service_ref>>, buf, 1)

\* The editor without the test "if result == content": the alternative pattern
\* is tried on the first substitution's result in every case.
add_to_runner_group_both(buf, fids) ==
  LET plugin_ref == GroupEntry(Plugin, fids.plugin)
      service_ref == GroupEntry(Service, fids.service)
      result == re_sub_group("primary", <<plugin_ref, service_ref>>, buf, 1)
  IN re_sub_group("fallback", <<plugin_ref, service_ref>>, result, 1)

add_to_runner_group(buf, fids) ==
  LET plugin_ref == GroupEntry(Plugin, fids.plugin)
      service_ref == GroupEntry(Service, fids.service)
      result == re_sub_group("primary", <<plugin_ref, service_ref>>, buf, 1)
  IN IF result = buf
     THEN re_sub_group("fallback", <<plugin_ref, service_ref>>, result, 1)
     ELSE result

\* Whether the token's text holds a ")".
HasParen(t) == t.k = "Close" \/ t.f = Paren

\* The pattern with ".*?" in place of "[^)]*?": the files list runs to the
\* first closing line whatever its entries hold.
SourcesEndAnyClose(buf, i) ==
  LET later == {j \in (i + 1)..Len(buf) : buf[j] = Close}
  IN IF later = {} THEN 0 ELSE CHOOSE x \in later : \A y \in later : x <= y

\* sources_phase_pattern from token i (a SourcesHead): "[^)]*?" runs up to the first
\* ")" after the header, which must be the one of "\t\t);".  0: no match here.
SourcesEnd(buf, i) ==
  LET later == {j \in (i + 1)..Len(buf) : HasParen(buf[j])}
  IN IF later = {} THEN 0
     ELSE LET j == CHOOSE x \in later : \A y \in later : x <= y
          IN IF buf[j] = Close THEN j ELSE 0

RECURSIVE re_sub_sources(_, _, _)
re_sub_sources(entries, buf, i) ==
  IF i > Len(buf) THEN <<>>
  ELSE IF buf[i] = SourcesHead /\ SourcesEnd(buf, i) # 0
       THEN LET j == SourcesEnd(buf, i)
            IN SubSeq(buf, i, j - 1) \o entries \o <<buf[j]>>
                 \o re_sub_sources(entries, buf, j + 1)
       ELSE <<buf[i]>> \o re_sub_sources(entries, buf, i + 1)

\* The listing entries written with the group editor's label, without
\* " in Sources".
add_to_sources_build_phase_unlabelled(buf, bids) ==
  LET plugin_ref == GroupEntry(Plugin, bids.plugin)
      service_ref == GroupEntry(Service, bids.service)
  IN re_sub_sources(<<plugin_ref, service_ref>>, buf, 1)

add_to_sources_build_phase(buf, bids) ==
  LET plugin_ref == PhaseEntry(Plugin, bids.plugin)
      service_ref == PhaseEntry(Service, bids.service)
  IN re_sub_sources(<<plugin_ref, service_ref>>, buf, 1)

\* ------------------------------------------------------------------ inputs

RECURSIVE Rep(_, _)
Rep(unit, n) == IF n = 0 THEN <<>> ELSE unit \o Rep(unit, n - 1)

\* Entries and records a Flutter project's manifest holds before the script runs;
\* their identifiers are not in the model's identifier space.
Child == GroupEntry(Other, -2)
OldPhaseEntry == PhaseEntry(Other, -1)
ParenPhaseEntry == PhaseEntry(Paren, -3)

\* The PBXBuildFile section with its end marker n times.
BuildSection(n) ==
  <<BeginBuild, BuildRecord(Other, -1, -2), BuildRecord(Paren, -3, -4)>>
    \o Rep(<<EndBuild>>, n)

\* The PBXFileReference section with its end marker n times.
RefSection(n) ==
  <<RefRecord(Header, SentinelId), RefRecord(Other, -2)>> \o Rep(<<EndRef>>, n)

\* A group's children list, its closing line and the two lines after it: the
\* Runner group of a Flutter project (the bridging header last), the same with
\* the header not last, a group with the header that is not at path Runner
\* (header last, header not last), and a manifest with both kinds of group.
GroupUnits ==
  { <<Child, Sentinel, Tab, Close, PathRunner, SourceTree>>,
    <<Sentinel, Child, Tab, Close, PathRunner, SourceTree>>,
    <<Child, Sentinel, Tab, Close, NameFlutter, SourceTree>>,
    <<Sentinel, Child, Tab, Close, NameFlutter, SourceTree>>,
    <<Sentinel, Tab, Close, NameFlutter, SourceTree,
      Child, Tab, Close, PathRunner, SourceTree>> }

\* A build phase's header (or only a target's reference to the phase), its files
\* list and the closing line.
PhaseUnits ==
  { <<SourcesHead, Tab, Close>>,
    <<SourcesHead, OldPhaseEntry, Tab, Close>>,
    <<SourcesHead, ParenPhaseEntry, Tab, Close>>,
    <<SourcesRef, OldPhaseEntry, Tab, Close>> }

\* A manifest in the section order Xcode writes: the two record sections with
\* or without their end markers, a group unit or none, a phase unit or none;
\* what is there occurs n times.
Manifest(b, r, g, p, n) ==
  BuildSection(IF b THEN n ELSE 0) \o RefSection(IF r THEN n ELSE 0)
    \o Rep(g, n) \o Rep(p, n)

\* The smallest manifest with the four anchors and nothing else.
Minimal == <<EndBuild, EndRef, Sentinel, Tab, Close, SourcesHead, Tab, Close>>

\* The manifests a run starts from: each kind of group and of phase in a
\* manifest with both record sections, and each subset of the four anchors'
\* sections.
Manifests ==
  { Manifest(TRUE, TRUE, g, p, n) :
      g \in GroupUnits, p \in PhaseUnits, n \in 1..MaxCopies }
    \cup
  { Manifest(b, r, g, p, n) :
      b \in BOOLEAN, r \in BOOLEAN,
      g \in {<<Child, Sentinel, Tab, Close, PathRunner, SourceTree>>,
              <<Sentinel, Child, Tab, Close, NameFlutter, SourceTree>>, <<>>},
      p \in {<<SourcesHead, OldPhaseEntry, Tab, Close>>,
              <<SourcesHead, ParenPhaseEntry, Tab, Close>>, <<>>},
      n \in 1..MaxCopies }
    \cup {Minimal}

\* The manifests two runs in succession start from: every anchor's section is
\* there once, the group being the Runner group with the header last or not
\* last, or a group with the header last that is not at path Runner.
ManifestsTwice ==
  { Manifest(TRUE, TRUE, g, <<SourcesHead, OldPhaseEntry, Tab, Close>>, 1) :
      g \in {<<Child, Sentinel, Tab, Close, PathRunner, SourceTree>>,
              <<Sentinel, Child, Tab, Close, PathRunner, SourceTree>>,
              <<Child, Sentinel, Tab, Close, NameFlutter, SourceTree>>} }
    \cup {Minimal}

\* ----------------------------------------------------------------- process

NoFile == [exists |-> FALSE, text |-> <<>>]
File(text) == [exists |-> TRUE, text |-> text]

\* What a write that stopped inside an entry left of it: a piece of text that
\* is no whole entry.
Torn == T("Torn", "", 0, 0)

Init ==
  /\ pc = "verify"
  /\ env \in [plugin : BOOLEAN, service : BOOLEAN, project : BOOLEAN]
  /\ disk \in {NoFile} \cup {File(m) : m \in Manifests}
  /\ (~env.project => disk = NoFile)
  /\ content = <<>>
  /\ prev = <<>>
  /\ input = <<>>
  /\ file_ids = Ids(0, 0)
  /\ build_ids = Ids(0, 0)
  /\ status = -1
  /\ orig = disk.text
  /\ writes = 0
  /\ fault = "none"
  /\ runs = 1

\* sys.exit(code), a return of main or an exception nobody caught: the process
\* ends and its locals are gone. The interpreter flushes standard output and
\* standard error on its way out and ends with status 120 when that fails:
\* every path has printed to standard output by then (text that waits in the
\* buffer when the stream is block-buffered), and main's handler has written a
\* trace to standard error. Whether the streams take the text is the
\* environment's choice in each run.
Exit(code) ==
  /\ pc' = "exit"
  /\ \E flushed \in BOOLEAN : status' = IF flushed THEN code ELSE 120
  /\ content' = <<>>
  /\ prev' = <<>>
  /\ input' = <<>>
  /\ file_ids' = Ids(0, 0)
  /\ build_ids' = Ids(0, 0)

\* verify_files_exist and main's test of it. plugin_path.exists() or
\* service_path.exists() raises when the file cannot be examined (a directory
\* on the way refuses the search); nobody catches that and the process ends
\* with status 1.
VerifyFilesExist ==
  /\ pc = "verify"
  /\ \/ /\ IF env.plugin /\ env.service
           THEN /\ pc' = "project"
                /\ UNCHANGED <<content, prev, input, file_ids, build_ids, status>>
           ELSE Exit(1)
        /\ UNCHANGED fault
     \/ /\ Exit(1)
        /\ fault' = "exists"
  /\ UNCHANGED <<env, disk, orig, writes, runs>>

\* main: if not xcode_project.exists(): sys.exit(1). The call is before main's
\* try: when it raises the process ends with status 1.
CheckProject ==
  /\ pc = "project"
  /\ \/ /\ IF env.project
           THEN /\ pc' = "read"
                /\ UNCHANGED <<content, prev, input, file_ids, build_ids, status>>
           ELSE Exit(1)
        /\ UNCHANGED fault
     \/ /\ Exit(1)
        /\ fault' = "exists"
  /\ UNCHANGED <<env, disk, orig, writes, runs>>

\* read_pbxproj: FileNotFoundError when the manifest is missing (main's handler
\* exits 1), its text otherwise.
ReadPbxproj ==
  /\ pc = "read"
  /\ IF disk.exists
     THEN /\ pc' = "gen"
          /\ content' = disk.text
          /\ input' = disk.text
          /\ UNCHANGED <<prev, file_ids, build_ids, status>>
     ELSE Exit(1)
  /\ UNCHANGED <<env, disk, orig, writes, fault, runs>>

\* pbxproj_path.exists() or read_text raises (an I/O or a decoding error);
\* main's handler exits 1.
ReadFault ==
  /\ pc = "read"
  /\ disk.exists
  /\ Exit(1)
  /\ fault' = "read"
  /\ UNCHANGED <<env, disk, orig, writes, runs>>

\* One call of generate_xcode_id; the four calls fill file_ids['plugin'],
\* file_ids['service'], build_ids['plugin'], build_ids['service'] in this order.
GenerateXcodeId ==
  /\ pc = "gen"
  /\ \E id \in 1..NumIds :
       IF file_ids.plugin = 0
       THEN /\ file_ids' = [file_ids EXCEPT !.plugin = id]
            /\ UNCHANGED <<build_ids, pc>>
       ELSE IF file_ids.service = 0
       THEN /\ file_ids' = [file_ids EXCEPT !.service = id]
            /\ UNCHANGED <<build_ids, pc>>
       ELSE IF build_ids.plugin = 0
       THEN /\ build_ids' = [build_ids EXCEPT !.plugin = id]
            /\ UNCHANGED <<file_ids, pc>>
       ELSE /\ build_ids' = [build_ids EXCEPT !.service = id]
            /\ pc' = "build"
            /\ UNCHANGED file_ids
  /\ UNCHANGED <<env, disk, content, prev, input, status, orig, writes, fault, runs>>

\* content = add_pbx_build_files(content, build_ids, file_ids)
AddPbxBuildFiles ==
  /\ pc = "build"
  /\ prev' = content
  /\ content' = add_pbx_build_files(content, build_ids, file_ids)
  /\ pc' = "refs"
  /\ UNCHANGED <<env, disk, input, file_ids, build_ids, status, orig, writes, fault, runs>>

\* content = add_pbx_file_references(content, file_ids)
AddPbxFileReferences ==
  /\ pc = "refs"
  /\ prev' = content
  /\ content' = add_pbx_file_references(content, file_ids)
  /\ pc' = "group"
  /\ UNCHANGED <<env, disk, input, file_ids, build_ids, status, orig, writes, fault, runs>>

\* content = add_to_runner_group(content, file_ids)
AddToRunnerGroup ==
  /\ pc = "group"
  /\ prev' = content
  /\ content' = add_to_runner_group(content, file_ids)
  /\ pc' = "sources"
  /\ UNCHANGED <<env, disk, input, file_ids, build_ids, status, orig, writes, fault, runs>>

\* content = add_to_sources_build_phase(content, build_ids)
AddToSourcesBuildPhase ==
  /\ pc = "sources"
  /\ prev' = content
  /\ content' = add_to_sources_build_phase(content, build_ids)
  /\ pc' = "write"
  /\ UNCHANGED <<env, disk, input, file_ids, build_ids, status, orig, writes, fault, runs>>

\* modify_pbxproj returning False when no editor changed the buffer: main
\* prints its error and exits 1.
WritePbxprojStrict ==
  /\ pc = "write"
  /\ IF content = input
     THEN /\ Exit(1)
          /\ UNCHANGED <<disk, writes>>
     ELSE /\ disk' = File(content)
          /\ writes' = writes + 1
          /\ pc' = "report"
          /\ UNCHANGED <<content, prev, input, file_ids, build_ids, status>>
  /\ UNCHANGED <<env, orig, fault, runs>>

\* write_pbxproj(project_path, content)
WritePbxproj ==
  /\ pc = "write"
  /\ disk' = File(content)
  /\ writes' = writes + 1
  /\ pc' = "report"
  /\ UNCHANGED <<env, content, prev, input, file_ids, build_ids, status, orig,
                 fault, runs>>

\* write_text raises: open(mode "w") failed and the file is as it was, or the
\* file was truncated by open and the write stopped after the text of the
\* first k entries or inside the entry after them (the one-character Tab has
\* no inside). main's handler exits 1.
WriteFault ==
  /\ pc = "write"
  /\ \/ UNCHANGED <<disk, writes>>
     \/ \E k \in 0..(Len(content) - 1), torn \in BOOLEAN :
          /\ torn => content[k + 1] # Tab
          /\ disk' = File(SubSeq(content, 1, k)
                            \o (IF torn THEN <<Torn>> ELSE <<>>))
          /\ writes' = writes + 1
  /\ Exit(1)
  /\ fault' = "write"
  /\ UNCHANGED <<env, orig, runs>>

\* The prints after the write, modify_pbxproj returns True, main prints its
\* closing lines and returns.
Report ==
  /\ pc = "report"
  /\ Exit(0)
  /\ UNCHANGED <<env, disk, orig, writes, fault, runs>>

\* A print raises: standard output is unbuffered and does not take the line,
\* or it is block-buffered and the line fills the buffer, whose flush fails. In
\* verify_files_exist and before main's try nobody catches it; inside the try
\* main's handler catches it and prints again. The run ends as sys.exit(1) does:
\* status 1, or 120 when the flush on the way out fails as well.
PrintFault ==
  /\ pc # "exit"
  /\ Exit(1)
  /\ fault' = "print"
  /\ UNCHANGED <<env, disk, orig, writes, runs>>

\* The script is started again on the manifest a successful run left.
RunAgain ==
  /\ pc = "exit"
  /\ status = 0
  /\ runs = 1
  /\ pc' = "verify"
  /\ status' = -1
  /\ runs' = 2
  /\ writes' = 0
  /\ UNCHANGED <<env, disk, content, prev, input, file_ids, build_ids, orig, fault>>

Next ==
  \/ VerifyFilesExist
  \/ CheckProject
  \/ ReadPbxproj
  \/ ReadFault
  \/ GenerateXcodeId
  \/ AddPbxBuildFiles
  \/ AddPbxFileReferences
  \/ AddToRunnerGroup
  \/ AddToSourcesBuildPhase
  \/ WritePbxproj
  \/ WriteFault
  \/ Report
  \/ PrintFault

\* One run of the script.
Spec == Init /\ [][Next]_vars

\* Two runs in succession on manifests and in an environment where the first
\* finds its files.
InitTwice ==
  /\ Init
  /\ env.plugin /\ env.service /\ env.project
  /\ disk \in {File(m) : m \in ManifestsTwice}

NextTwice == Next \/ RunAgain

SpecTwice == InitTwice /\ [][NextTwice]_vars

\* ------------------------------------------------- what the claims speak of

\* Number of tokens of kind k in buf.
CountKind(buf, k) == Cardinality({i \in DOMAIN buf : buf[i].k = k})

\* Number of occurrences of token t in buf.
CountTok(buf, t) == Cardinality({i \in DOMAIN buf : buf[i] = t})

\* The anchors, stated on the text and not by the editors' code.
\* Positions of the "End PBXBuildFile section" marker.
BuildMarkers(buf) == {i \in DOMAIN buf : buf[i].k = "EndBuild"}

\* Positions of the "End PBXFileReference section" marker.
RefMarkers(buf) == {i \in DOMAIN buf : buf[i].k = "EndRef"}

\* Positions of a bridging-header entry directly followed by the closing line.
SentinelSites(buf) ==
  {i \in DOMAIN buf :
     /\ i + 2 <= Len(buf)
     /\ buf[i].k = "GroupEntry" /\ buf[i].f = Header /\ buf[i].id = SentinelId
     /\ buf[i + 1].k = "Tab" /\ buf[i + 2].k = "Close"}

\* Positions of an identifier entry directly followed by the closing line and
\* by the lines "path = Runner;" and "sourceTree = ...".
LastChildSites(buf) ==
  {i \in DOMAIN buf :
     /\ i + 4 <= Len(buf)
     /\ buf[i].k \in {"GroupEntry", "PhaseEntry", "SourcesRef"}
     /\ buf[i + 1].k = "Tab" /\ buf[i + 2].k = "Close"
     /\ buf[i + 3].k = "PathRunner" /\ buf[i + 4].k = "SourceTree"}

\* The sites the group editor is to use: the sentinel's, else the fallback's.
GroupSites(buf) ==
  IF SentinelSites(buf) # {} THEN SentinelSites(buf) ELSE LastChildSites(buf)

\* Closing lines after position i.
ClosesAfter(buf, i) == {j \in (i + 1)..Len(buf) : buf[j].k = "Close"}

\* The closing line of the files list that starts at header i.
FirstClose(buf, i) ==
  CHOOSE j \in ClosesAfter(buf, i) : \A x \in ClosesAfter(buf, i) : j <= x

\* Positions of a 97C146EA1CF9000F007C117D Sources header whose files list runs
\* to its closing line without a ")" in an entry.
PhaseBlocks(buf) ==
  {i \in DOMAIN buf :
     /\ buf[i].k = "SourcesHead"
     /\ ClosesAfter(buf, i) # {}
     /\ \A l \in (i + 1)..(FirstClose(buf, i) - 1) : buf[l].f # Paren}

\* The positions the editors are to insert before.
BuildPositions(buf) == BuildMarkers(buf)
RefPositions(buf) == RefMarkers(buf)
GroupPositions(buf) == {i + 1 : i \in GroupSites(buf)}
PhasePositions(buf) == {FirstClose(buf, i) : i \in PhaseBlocks(buf)}

\* The entries of this run, plugin file first.
BuildPair ==
  <<BuildRecord(Plugin, build_ids.plugin, file_ids.plugin),
    BuildRecord(Service, build_ids.service, file_ids.service)>>
RefPair == <<RefRecord(Plugin, file_ids.plugin), RefRecord(Service, file_ids.service)>>
GroupPair == <<GroupEntry(Plugin, file_ids.plugin), GroupEntry(Service, file_ids.service)>>
PhasePair == <<PhaseEntry(Plugin, build_ids.plugin), PhaseEntry(Service, build_ids.service)>>

\* buf with the entries put in before each position of S.
InsertAll(buf, S, entries) ==
  LET F[i \in 0..Len(buf)] ==
        IF i = 0 THEN <<>>
        ELSE F[i - 1] \o (IF i \in S THEN entries ELSE <<>>) \o <<buf[i]>>
  IN F[Len(buf)]

\* The least element of a non-empty set of positions.
First(S) == CHOOSE i \in S : \A j \in S : i <= j

\* Whether a is b with some tokens left out.
RECURSIVE IsSubseq(_, _)
IsSubseq(a, b) ==
  IF a = <<>> THEN TRUE
  ELSE IF b = <<>> THEN FALSE
  ELSE IF Head(a) = Head(b) THEN IsSubseq(Tail(a), Tail(b))
  ELSE IsSubseq(a, Tail(b))

\* Number of tokens of buf that are one of the entries.
CountIn(buf, entries) ==
  Cardinality({i \in DOMAIN buf : \E e \in DOMAIN entries : buf[i] = entries[e]})

\* The manifest file as it was before the first run.
OrigDisk == IF orig = <<>> THEN NoFile ELSE File(orig)

\* --------------------------------------------------------------------- C2

\* C2: an editor whose anchor is nowhere in its input buffer (for the group
\* editor: neither the sentinel site nor the fallback site) returns the buffer
\* unchanged.
C2_NoAnchorNoChange ==
  /\ (pc = "refs" /\ BuildMarkers(prev) = {}) => content = prev
  /\ (pc = "group" /\ RefMarkers(prev) = {}) => content = prev
  /\ (pc = "sources" /\ SentinelSites(prev) = {} /\ LastChildSites(prev) = {})
       => content = prev
  /\ (pc = "write" /\ PhaseBlocks(prev) = {}) => content = prev

\* A run in which no editor found its anchor although the manifest holds the
\* sentinel entry and a Sources header, and all four have returned.
C2_Witness ==
  /\ pc = "write"
  /\ BuildMarkers(input) = {} /\ RefMarkers(input) = {}
  /\ SentinelSites(input) = {} /\ LastChildSites(input) = {}
  /\ PhaseBlocks(input) = {}
  /\ \E i \in DOMAIN input : input[i] = Sentinel
  /\ \E i \in DOMAIN input : input[i] = SourcesHead
  /\ content = input

\* --------------------------------------------------------------------- C8

\* C8 as stated: when the anchor occurs more than once, one pair is inserted,
\* at the first occurrence, and the later occurrences are left as they are.
C8_FirstMatchOnly ==
  /\ (pc = "refs" /\ Cardinality(BuildPositions(prev)) > 1)
       => content = InsertAll(prev, {First(BuildPositions(prev))}, BuildPair)
  /\ (pc = "group" /\ Cardinality(RefPositions(prev)) > 1)
       => content = InsertAll(prev, {First(RefPositions(prev))}, RefPair)
  /\ (pc = "sources" /\ Cardinality(GroupPositions(prev)) > 1)
       => content = InsertAll(prev, {First(GroupPositions(prev))}, GroupPair)
  /\ (pc = "write" /\ Cardinality(PhasePositions(prev)) > 1)
       => content = InsertAll(prev, {First(PhasePositions(prev))}, PhasePair)

\* C8 amended: when the anchor occurs more than once, a pair is inserted at
\* every occurrence.
C8_EveryMatch ==
  /\ (pc = "refs" /\ Cardinality(BuildPositions(prev)) > 1)
       => content = InsertAll(prev, BuildPositions(prev), BuildPair)
  /\ (pc = "group" /\ Cardinality(RefPositions(prev)) > 1)
       => content = InsertAll(prev, RefPositions(prev), RefPair)
  /\ (pc = "sources" /\ Cardinality(GroupPositions(prev)) > 1)
       => content = InsertAll(prev, GroupPositions(prev), GroupPair)
  /\ (pc = "write" /\ Cardinality(PhasePositions(prev)) > 1)
       => content = InsertAll(prev, PhasePositions(prev), PhasePair)

\* A run on a manifest with every anchor twice, after the last editor: four new
\* tokens of each kind.
C8_Witness ==
  /\ pc = "write"
  /\ Cardinality(BuildPositions(input)) = 2 /\ Cardinality(RefPositions(input)) = 2
  /\ Cardinality(GroupPositions(input)) = 2 /\ Cardinality(PhasePositions(input)) = 2
  /\ CountKind(content, "BuildRecord") = CountKind(input, "BuildRecord") + 4
  /\ CountKind(content, "RefRecord") = CountKind(input, "RefRecord") + 4
  /\ CountKind(content, "GroupEntry") = CountKind(input, "GroupEntry") + 4
  /\ CountKind(content, "PhaseEntry") = CountKind(input, "PhaseEntry") + 4

\* --------------------------------------------------------------------- C9

\* C9: the group editor uses the fallback sites exactly when there is no sentinel
\* site; at each site it uses, the plugin entry and then the service entry come
\* directly after the matched last child (the sentinel, when its pattern
\* matched) and directly before the closing line.
C9_TwoTier ==
  pc = "sources" =>
    /\ content = InsertAll(prev, GroupPositions(prev), GroupPair)
    /\ \A j \in DOMAIN content :
         (content[j] = GroupPair[1] /\ CountIn(prev, GroupPair) = 0) =>
           /\ j > 1 /\ j + 3 <= Len(content)
           /\ content[j - 1].k \in {"GroupEntry", "PhaseEntry", "SourcesRef"}
           /\ (SentinelSites(prev) # {} => content[j - 1] = Sentinel)
           /\ content[j + 1] = GroupPair[2]
           /\ content[j + 2] = Tab /\ content[j + 3] = Close

\* The group editor has run on a buffer with no sentinel site and a fallback
\* site, and has inserted there.
C9_Witness ==
  /\ pc = "sources"
  /\ SentinelSites(prev) = {} /\ LastChildSites(prev) # {}
  /\ content # prev
  /\ CountIn(content, GroupPair) = 2 * Cardinality(LastChildSites(prev))

\* -------------------------------------------------------------------- C10

\* C10: every editor's output is its input with entries of its own pair put in:
\* the input is the output with tokens left out, and the tokens put in are all
\* entries of the pair; the pipeline's output is the text read with this run's
\* entries put in.
C10_PureInsertion ==
  /\ pc = "refs" =>
       /\ IsSubseq(prev, content)
       /\ Len(content) - Len(prev) = CountIn(content, BuildPair) - CountIn(prev, BuildPair)
  /\ pc = "group" =>
       /\ IsSubseq(prev, content)
       /\ Len(content) - Len(prev) = CountIn(content, RefPair) - CountIn(prev, RefPair)
  /\ pc = "sources" =>
       /\ IsSubseq(prev, content)
       /\ Len(content) - Len(prev) = CountIn(content, GroupPair) - CountIn(prev, GroupPair)
  /\ pc = "write" =>
       /\ IsSubseq(prev, content)
       /\ Len(content) - Len(prev) = CountIn(content, PhasePair) - CountIn(prev, PhasePair)
       /\ IsSubseq(input, content)
       /\ Len(content) - Len(input)
            = CountIn(content, BuildPair \o RefPair \o GroupPair \o PhasePair)
                - CountIn(input, BuildPair \o RefPair \o GroupPair \o PhasePair)

\* The pipeline has run and put in eight entries.
C10_Witness ==
  /\ pc = "write"
  /\ Len(content) = Len(input) + 8
  /\ IsSubseq(input, content)

\* --------------------------------------------------------------------- C1

\* The four expected anchors are in buf.
FourAnchors(buf) ==
  /\ BuildMarkers(buf) # {} /\ RefMarkers(buf) # {}
  /\ SentinelSites(buf) # {} /\ PhaseBlocks(buf) # {}

\* Each of the four expected anchors is in buf exactly once.
AnchorsOnce(buf) ==
  /\ Cardinality(BuildMarkers(buf)) = 1 /\ Cardinality(RefMarkers(buf)) = 1
  /\ Cardinality(SentinelSites(buf)) = 1 /\ Cardinality(PhaseBlocks(buf)) = 1

\* Tokens of kind k the pipeline has added to the text it read.
Added(k) == CountKind(content, k) - CountKind(input, k)

\* The pipeline's output holds exactly two new records and two new listing
\* entries of each kind: one more of each entry of this run, so that every
\* BuildBinding record names the Reference record of its own file, the group
\* entries carry the Reference identifiers and the phase entries the
\* BuildBinding identifiers; the records stand before their section's end marker,
\* the group entries between the sentinel and the closing line, the phase
\* entries at the end of the Sources files list.
TwoOfEach ==
  /\ Added("RefRecord") = 2 /\ Added("BuildRecord") = 2
  /\ Added("GroupEntry") = 2 /\ Added("PhaseEntry") = 2
  /\ \A e \in 1..2 :
       /\ CountTok(content, RefPair[e]) = CountTok(input, RefPair[e]) + 1
       /\ CountTok(content, BuildPair[e]) = CountTok(input, BuildPair[e]) + 1
       /\ CountTok(content, GroupPair[e]) = CountTok(input, GroupPair[e]) + 1
       /\ CountTok(content, PhasePair[e]) = CountTok(input, PhasePair[e]) + 1
  /\ \E j \in DOMAIN content :
       j > 2 /\ content[j] = EndBuild /\ SubSeq(content, j - 2, j - 1) = BuildPair
  /\ \E j \in DOMAIN content :
       j > 2 /\ content[j] = EndRef /\ SubSeq(content, j - 2, j - 1) = RefPair
  /\ \E j \in DOMAIN content :
       /\ j + 4 <= Len(content)
       /\ content[j] = Sentinel /\ SubSeq(content, j + 1, j + 2) = GroupPair
       /\ content[j + 3] = Tab /\ content[j + 4] = Close
  /\ \E h \in PhaseBlocks(content) :
       LET j == FirstClose(content, h)
       IN j - 2 > h /\ SubSeq(content, j - 2, j - 1) = PhasePair

\* C1 as stated: on every manifest with the four anchors one run of the pipeline
\* adds exactly two of each.
C1_FourAnchorsTwoOfEach == (pc = "write" /\ FourAnchors(input)) => TwoOfEach

\* C1 amended: on every manifest with each of the four anchors exactly once one
\* run of the pipeline adds exactly two of each.
C1_AnchorsOnceTwoOfEach == (pc = "write" /\ AnchorsOnce(input)) => TwoOfEach

\* The pipeline has run on a manifest with each anchor once, with different
\* identifiers for the two files.
C1_Witness ==
  /\ pc = "write"
  /\ AnchorsOnce(input)
  /\ file_ids.plugin # file_ids.service /\ build_ids.plugin # build_ids.service
  /\ Added("RefRecord") = 2 /\ Added("BuildRecord") = 2

\* --------------------------------------------------------------------- C3

\* Number of lines of buf whose text holds the file name f: every token but Tab
\* is a line of its own, and the tokens written for a file hold its name.
LinesWith(buf, f) == Cardinality({i \in DOMAIN buf : buf[i].f = f})

\* Number of lines of buf whose text holds "<f> in Sources".
LinesWithInSources(buf, f) ==
  Cardinality({i \in DOMAIN buf :
                 buf[i].f = f /\ buf[i].k \in {"BuildRecord", "PhaseEntry"}})

\* C3 as stated: after one run on the minimal manifest 3 lines hold each file's
\* name and 2 of them hold "<name> in Sources".
C3_ThreeLines ==
  (pc = "write" /\ input = Minimal) =>
    \A f \in {Plugin, Service} :
      LinesWith(content, f) = 3 /\ LinesWithInSources(content, f) = 2

\* C3 amended: after one run on the minimal manifest 4 lines hold each file's
\* name (the phase-listing entry holds it too) and 2 of them hold
\* "<name> in Sources".
C3_FourLines ==
  (pc = "write" /\ input = Minimal) =>
    \A f \in {Plugin, Service} :
      LinesWith(content, f) = 4 /\ LinesWithInSources(content, f) = 2

\* The pipeline has run on the minimal manifest.
C3_Witness ==
  /\ pc = "write"
  /\ input = Minimal
  /\ LinesWith(content, Plugin) = 4
  /\ LinesWith(input, Plugin) = 0

\* --------------------------------------------------------------------- C4

\* Tokens of kind k the manifest on disk holds more than the original one.
AddedOnDisk(k) == CountKind(disk.text, k) - CountKind(orig, k)

\* Two runs have ended with success.
TwoRunsDone == pc = "exit" /\ status = 0 /\ runs = 2

\* Four more of each kind than in the original manifest.
FourOfEach ==
  /\ AddedOnDisk("RefRecord") = 4 /\ AddedOnDisk("BuildRecord") = 4
  /\ AddedOnDisk("GroupEntry") = 4 /\ AddedOnDisk("PhaseEntry") = 4

\* C4 as stated: on every manifest with the four anchors two runs in succession
\* leave four new records in each section and four new entries in each listing.
C4_TwiceFourOfEach == (TwoRunsDone /\ FourAnchors(orig)) => FourOfEach

\* The sentinel's closing line is followed by the Runner group's path and
\* sourceTree lines, and the fallback pattern matches nowhere else.
RunnerTail(buf) == LastChildSites(buf) = SentinelSites(buf)

\* C4 amended: on every manifest with each of the four anchors exactly once,
\* whose sentinel's closing line is followed by the "path = Runner;" and sourceTree
\* lines (the one place the fallback pattern matches), two runs in succession
\* leave four of each.
C4_TwiceFourOfEachRunner ==
  (TwoRunsDone /\ AnchorsOnce(orig) /\ RunnerTail(orig)) => FourOfEach

\* Two runs have ended on such a manifest.
C4_Witness ==
  /\ TwoRunsDone
  /\ AnchorsOnce(orig) /\ RunnerTail(orig)
  /\ AddedOnDisk("GroupEntry") = 4

\* --------------------------------------------------------------------- C5

\* C5: the manifest is written at most once and only after the identifiers
\* and the four editors, and a run that ends with failure status leaves it as
\* it was.
C5_FailureKeepsManifest ==
  /\ writes <= 1
  /\ pc \notin {"report", "exit"} => (writes = 0 /\ disk = OrigDisk)
  /\ (pc = "exit" /\ status # 0) => disk = OrigDisk

\* --------------------------------------------------------------------- C6

\* What C6 promises of a finished run: status 0, and the manifest on disk is
\* the original one with two entries put in per occurrence of an anchor and
\* nothing for an anchor that is not there.
SuccessWithInsertions ==
  /\ status = 0
  /\ disk.exists
  /\ AddedOnDisk("BuildRecord") = 2 * Cardinality(BuildMarkers(orig))
  /\ AddedOnDisk("RefRecord") = 2 * Cardinality(RefMarkers(orig))
  /\ AddedOnDisk("GroupEntry") = 2 * Cardinality(GroupSites(orig))
  /\ AddedOnDisk("PhaseEntry") = 2 * Cardinality(PhaseBlocks(orig))
  /\ IsSubseq(orig, disk.text)
  /\ Len(disk.text) - Len(orig)
       = AddedOnDisk("BuildRecord") + AddedOnDisk("RefRecord")
           + AddedOnDisk("GroupEntry") + AddedOnDisk("PhaseEntry")

\* C6 as stated: a run with both Swift files, the project and a manifest that
\* was read ends with status 0 whichever anchors are there, with exactly the
\* insertions of the anchors that are there.
C6_SuccessReadableManifest ==
  (pc = "exit" /\ env.plugin /\ env.service /\ env.project
     /\ orig # <<>> /\ fault # "read") => SuccessWithInsertions

\* The flush of the standard streams at the end of the run failed.
FlushFailed == status = 120

\* C6 amended: a run with both Swift files, the project and a manifest, in
\* which no exists(), read, write or print raised and the standard streams took
\* the text at exit, ends with status 0 whichever anchors are there, with
\* exactly the insertions of the anchors that are there.
C6_SuccessWhateverAnchors ==
  (pc = "exit" /\ env.plugin /\ env.service /\ env.project
     /\ orig # <<>> /\ fault = "none" /\ ~FlushFailed) => SuccessWithInsertions

\* A run has ended with success on a manifest with the Sources header and no
\* match of the phase pattern: both record sections have their insertions and
\* the files list has none.
C6_Witness ==
  /\ pc = "exit" /\ status = 0
  /\ PhaseBlocks(orig) = {}
  /\ \E i \in DOMAIN orig : orig[i] = SourcesHead
  /\ BuildMarkers(orig) # {} /\ RefMarkers(orig) # {}
  /\ AddedOnDisk("BuildRecord") = 2 /\ AddedOnDisk("RefRecord") = 2
  /\ AddedOnDisk("PhaseEntry") = 0

\* --------------------------------------------------------------------- C7

\* Every group-listing entry names a Reference record of buf and every
\* phase-listing entry a BuildBinding record of buf.
ListingInvariant(buf) ==
  \A i \in DOMAIN buf :
    /\ buf[i].k = "GroupEntry" =>
         \E j \in DOMAIN buf : buf[j].k = "RefRecord" /\ buf[j].id = buf[i].id
    /\ buf[i].k = "PhaseEntry" =>
         \E j \in DOMAIN buf : buf[j].k = "BuildRecord" /\ buf[j].id = buf[i].id

\* C7: a successful run on a manifest in which the listing invariant holds
\* leaves a manifest in which it holds.
C7_ListingInvariantKept ==
  (pc = "exit" /\ status = 0 /\ ListingInvariant(orig)) => ListingInvariant(disk.text)

====
